---- MODULE Spec2Model ----
(***************************************************************************)
(* nuggt: calculate_intensity_in_regions.                                  *)
(*                                                                         *)
(* The model follows src/nuggt/calculate_intensity_in_regions.py:          *)
(*   do_plane  - warp one plane into the reference segmentation, mask the  *)
(*               out-of-bounds pixels and bin counts / intensities by      *)
(*               label (a pure function of its inputs);                    *)
(*   main      - load the segmentation into shared memory, glob the planes,*)
(*               map do_plane over them (sequentially or through a         *)
(*               multiprocessing.Pool), reduce into total_counts and       *)
(*               total_sums, then filter, roll up and write the report.    *)
(*                                                                         *)
(* Numbers.  Warped coordinates are floating point in the program; here    *)
(* they are counted in half units (h stands for h/2), which is enough to   *)
(* exercise np.round's round-half-to-even.  Vectors (numpy 1-d arrays) are *)
(* functions over 0 .. n-1.  A plane is a one-row image, given as the      *)
(* sequence of its intensities.                                            *)
(***************************************************************************)
EXTENDS Integers, Sequences, FiniteSets, TLC

\* ---------------------------------------------------------------- bounds
\* Largest label id in a reference segmentation file.
MaxLabel == 2
\* Largest pixel intensity in a plane file.
MaxIntensity == 1
\* Number of pixels of a plane (its one row).
MaxCols == 2
\* Largest number of plane files the glob matches.
MaxPlanes == 2
\* Largest --n-cores drawn.
MaxCores == 2

\* ------------------------------------------------------- numpy primitives
Zeros(n) == [i \in 0 .. n - 1 |-> 0]

VecLen(v) == Cardinality(DOMAIN v)

MaxOf(S) == CHOOSE m \in S : \A x \in S : x <= m

RECURSIVE SumSeq(_)
SumSeq(q) == IF q = <<>> THEN 0 ELSE Head(q) + SumSeq(Tail(q))

\* The indices at which the boolean array mask is true, ascending (boolean-mask
\* indexing and np.where keep the order of the array).
RECURSIVE WhereUpTo(_, _)
WhereUpTo(mask, n) ==
    IF n = 0 THEN <<>>
    ELSE IF mask[n] THEN Append(WhereUpTo(mask, n - 1), n)
         ELSE WhereUpTo(mask, n - 1)

Where(mask) == WhereUpTo(mask, Len(mask))

\* .astype(np.uint16)
AsUint16(v) == v % 65536

\* np.round of h/2, then .astype(np.int32): halves go to the even neighbour.
RoundHalfEven(h) ==
    IF h % 2 = 0 THEN h \div 2
    ELSE LET f == (h - 1) \div 2 IN IF f % 2 = 0 THEN f ELSE f + 1

\* A faulty bincount: minlength forgotten.
bincount_nomin(x, weights, minlength) ==
    LET n == IF x = <<>> THEN 0 ELSE MaxOf({x[i] : i \in DOMAIN x}) + 1
    IN  [k \in 0 .. n - 1 |->
            LET at == Where([i \in 1 .. Len(x) |-> x[i] = k])
            IN  SumSeq([j \in 1 .. Len(at) |-> weights[at[j]]])]

\* np.bincount(x, weights, minlength): out[k] is the sum of the weights of the
\* entries of x equal to k; the length is max(minlength, max(x) + 1).
bincount(x, weights, minlength) ==
    LET top == IF x = <<>> THEN 0 ELSE MaxOf({x[i] : i \in DOMAIN x}) + 1
        n   == IF top > minlength THEN top ELSE minlength
    IN  [k \in 0 .. n - 1 |->
            LET at == Where([i \in 1 .. Len(x) |-> x[i] = k])
            IN  SumSeq([j \in 1 .. Len(at) |-> weights[at[j]]])]

\* ------------------------------------------------------------ the inputs
\* A reference segmentation: its shape (z, y, x) and one label per voxel.
Voxels(shape) ==
    (0 .. shape[1] - 1) \X (0 .. shape[2] - 1) \X (0 .. shape[3] - 1)

\* The shapes drawn: two voxels, laid along each axis in turn, so that every
\* axis has both an extent of 1 and an extent of 2.
SegShapes == {<<1, 1, 2>>, <<1, 2, 1>>, <<2, 1, 1>>}

Segmentations ==
    UNION {[shape : {sh}, data : [Voxels(sh) -> 0 .. MaxLabel]] : sh \in SegShapes}

\* A plane file: decodable with its row of intensities, or one that
\* tifffile.imread fails on.
BadFile == [ok |-> FALSE, px |-> <<>>]

Images == [1 .. MaxCols -> 0 .. MaxIntensity]

PlaneFiles == {[ok |-> TRUE, px |-> im] : im \in Images} \cup {BadFile}

\* The alignment's warp, in half units: per axis an offset and a step per
\* pixel (0: the axis is collapsed, 1: half a voxel per pixel, 2: one voxel
\* per pixel).  Offsets from -1.0 to 2.0 put a pixel below, on, inside and
\* beyond every extent.
HalfOffsets == (-2) .. 4

HalfSteps == 0 .. 2

Warpers == [off   : HalfOffsets \X HalfOffsets \X HalfOffsets,
            scale : HalfSteps \X HalfSteps \X HalfSteps]

\* awarper(coordinate): the approximated warp evaluated at a pixel (z, y, x).
awarper(w, p) == [a \in 1 .. 3 |-> w.off[a] + w.scale[a] * p[a]]

\* ---------------------------------------------------------------- do_plane
\* A faulty InBounds: the upper bounds taken inclusive.
InBoundsInclusive(zs, ys, xs, shape) ==
    /\ xs >= 0 /\ xs <= shape[3]
    /\ ys >= 0 /\ ys <= shape[2]
    /\ zs >= 0 /\ zs <= shape[1]

\* The mask of lines 67-69 for one pixel's rounded coordinates.
InBounds(zs, ys, xs, shape) ==
    /\ xs >= 0 /\ xs < shape[3]
    /\ ys >= 0 /\ ys < shape[2]
    /\ zs >= 0 /\ zs < shape[1]

\* np.max(m) + 1 over the shared segmentation.
Send(m) == MaxOf({m.data[v] : v \in DOMAIN m.data}) + 1

\* The rounded warped coordinates of the plane's pixels, in flattened order.
SegCoords(plane, z, w) ==
    [i \in 1 .. Len(plane) |->
        LET wp == awarper(w, <<z, 0, i - 1>>)
        IN  <<RoundHalfEven(wp[1]), RoundHalfEven(wp[2]), RoundHalfEven(wp[3])>>]

PlaneMask(plane, z, m, w) ==
    LET sc == SegCoords(plane, z, w)
    IN  [i \in 1 .. Len(plane) |-> InBounds(sc[i][1], sc[i][2], sc[i][3], m.shape)]

\* m[zseg, yseg, xseg] for one coordinate: numpy wraps an index in
\* -size .. -1 around and raises IndexError outside -size .. size-1.
Indexable(c, shape) == \A a \in 1 .. 3 : c[a] >= -shape[a] /\ c[a] < shape[a]

Lookup(m, c) == m.data[<<c[1] % m.shape[1], c[2] % m.shape[2], c[3] % m.shape[3]>>]

Raised == [ok |-> FALSE, counts |-> <<>>, sums |-> <<>>]

\* lines 58-76, for a decoded plane.
plane_result(plane, z, m, w) ==
    LET sc    == SegCoords(plane, z, w)
        sel   == Where(PlaneMask(plane, z, m, w))
        send  == Send(m)
    IN  IF \E j \in 1 .. Len(sel) : ~Indexable(sc[sel[j]], m.shape) THEN Raised
        ELSE
            LET seg == [j \in 1 .. Len(sel) |-> Lookup(m, sc[sel[j]])]
            IN  [ok     |-> TRUE,
                 counts |-> bincount(seg, [j \in 1 .. Len(sel) |-> 1], send),
                 sums   |-> bincount(seg, [j \in 1 .. Len(sel) |-> plane[sel[j]]],
                                     send)]

\* A faulty do_plane: an undecodable file counted as an empty plane.
do_plane_swallow(file, z, m, w) ==
    IF ~file.ok
    THEN [ok |-> TRUE, counts |-> Zeros(Send(m)), sums |-> Zeros(Send(m))]
    ELSE plane_result(file.px, z, m, w)

\* do_plane: tifffile.imread raises on an undecodable file.
do_plane(file, z, m, w) ==
    IF ~file.ok THEN Raised ELSE plane_result(file.px, z, m, w)

\* ------------------------------------------------------ main: its helpers
\* The region table read by BrainRegions.parse: name_per_id for the finest
\* level and, for the requested coarser level, the ancestor name of each id
\* (both dicts, possibly without an entry for an id).  Names in ascending
\* order.
RegionNames == <<"CortexA", "CortexB">>

NameSet == {RegionNames[i] : i \in DOMAIN RegionNames}

NoRegions == [name_per_id |-> <<>>, level_name |-> <<>>]

\* br.get_level_name(seg_id, level), for the level of this run: the ancestor
\* name, or for an id without an entry a name made of the id.
get_level_name(b, seg_id) ==
    IF seg_id \in DOMAIN b.level_name THEN <<b.level_name[seg_id]>>
    ELSE <<"id", seg_id>>

\* with segmentation.txn() as m: m[:] = segmentation   (lines 87-88)
LoadTxn(m, seg) == [shape |-> seg.shape,
                    data  |-> [v \in DOMAIN seg.data |-> AsUint16(seg.data[v])]]

\* A faulty DoPlaneTxn: the worker's transaction clears the memory.
DoPlaneTxnWrites(m) == [m EXCEPT !.data = [v \in DOMAIN m.data |-> 0]]

\* with segmentation.txn() as m: ... in do_plane (lines 70-75) only reads m.
DoPlaneTxn(m) == m

\* A faulty PoolRejects: any size accepted.
PoolAcceptsAny(processes) == FALSE

\* multiprocessing.Pool(processes) raises ValueError below one process.
PoolRejects(processes) == processes < 1

\* A faulty iadd: a = v in place of a += v.
iadd_assign(a, v, vfloat, rule) ==
    IF vfloat /\ rule = "same_kind" THEN [err |-> "UFuncTypeError", val |-> a]
    ELSE IF DOMAIN v = DOMAIN a THEN [err |-> "none", val |-> v]
    ELSE [err |-> "ValueError", val |-> a]

\* a += v on a 1-d int64 array a: elementwise when the shapes agree or v has
\* one element; an array of float64 (np.bincount with weights) is cast back to
\* int64 only under the "unsafe" in-place casting of older numpy builds and
\* is refused under "same_kind".
iadd(a, v, vfloat, rule) ==
    IF vfloat /\ rule = "same_kind" THEN [err |-> "UFuncTypeError", val |-> a]
    ELSE IF DOMAIN v = DOMAIN a
         THEN [err |-> "none", val |-> [i \in DOMAIN a |-> a[i] + v[i]]]
    ELSE IF VecLen(v) = 1
         THEN [err |-> "none", val |-> [i \in DOMAIN a |-> a[i] + v[0]]]
    ELSE [err |-> "ValueError", val |-> a]

\* A faulty Accumulate: total_sums += c in place of total_sums += s.
AccumulateCountsTwice(tc, ts, r, rule) ==
    LET a == iadd(tc, r.counts, FALSE, rule)
        b == iadd(ts, r.counts, TRUE, rule)
    IN  IF a.err # "none" THEN [err |-> a.err, counts |-> tc, sums |-> ts]
        ELSE [err |-> b.err, counts |-> a.val, sums |-> b.val]

\* total_counts += c; total_sums += s   (lines 97-98 and 110-111)
Accumulate(tc, ts, r, rule) ==
    LET a == iadd(tc, r.counts, FALSE, rule)
        b == iadd(ts, r.sums, TRUE, rule)
    IN  IF a.err # "none" THEN [err |-> a.err, counts |-> tc, sums |-> ts]
        ELSE [err |-> b.err, counts |-> a.val, sums |-> b.val]

\* A faulty Survives: ids with a zero count kept.
SurvivesAll(count) == count >= 0

\* seg_ids = np.where(total_counts > 0)[0]   (line 116)
Survives(count) == count > 0

SegIds(tc) ==
    LET at == Where([i \in 1 .. VecLen(tc) |-> Survives(tc[i - 1])])
    IN  [j \in 1 .. Len(at) |-> at[j] - 1]

\* total / count as the report prints it: the exact quotient, kept as a pair.
Mean(total, count) == IF count = 0 THEN <<"nan">> ELSE <<total, count>>

\* The rows of lines 125-134.
RegionOf(b, seg_id) ==
    IF seg_id = 0 THEN <<"not in any region">>
    ELSE IF seg_id \in DOMAIN b.name_per_id THEN <<b.name_per_id[seg_id]>>
    ELSE <<"id", seg_id>>

Level7Rows(tc, ts, b) ==
    LET ids == SegIds(tc)
    IN  [j \in 1 .. Len(ids) |->
            [key    |-> <<ids[j]>> \o RegionOf(b, ids[j]),
             area   |-> tc[ids[j]],
             total_intensity |-> ts[ids[j]],
             mean   |-> Mean(ts[ids[j]], tc[ids[j]])]]

\* The loop of lines 136-144 from its j-th id on.  d[level] holds a tuple, so
\* d[level][0] += count raises TypeError when the name is already in d.
RECURSIVE RollupFrom(_, _, _, _, _, _)
RollupFrom(d, ids, j, tc, ts, b) ==
    IF j > Len(ids) THEN [err |-> "none", d |-> d]
    ELSE LET name == get_level_name(b, ids[j])
         IN  IF name \in DOMAIN d THEN [err |-> "TypeError", d |-> d]
             ELSE RollupFrom(d @@ (name :> <<tc[ids[j]], ts[ids[j]]>>),
                             ids, j + 1, tc, ts, b)

Rollup(tc, ts, b) == RollupFrom(<<>>, SegIds(tc), 1, tc, ts, b)

\* The characters of a name, as code points.  A region name of the table, or
\* "id%d" % seg_id for the name made of an id.
NameChars ==
    ("CortexA" :> <<67, 111, 114, 116, 101, 120, 65>>)
        @@ ("CortexB" :> <<67, 111, 114, 116, 101, 120, 66>>)

RECURSIVE Digits(_)
Digits(n) == IF n < 10 THEN <<48 + n>> ELSE Digits(n \div 10) \o <<48 + (n % 10)>>

KeyChars(k) == IF Len(k) = 2 THEN <<105, 100>> \o Digits(k[2]) ELSE NameChars[k[1]]

\* a < b on str: by the first differing character, a proper prefix first.
RECURSIVE StrLess(_, _)
StrLess(a, b) ==
    IF a = <<>> THEN b # <<>>
    ELSE IF b = <<>> THEN FALSE
    ELSE IF Head(a) # Head(b) THEN Head(a) < Head(b)
    ELSE StrLess(Tail(a), Tail(b))

\* sorted(d): every key of d, in ascending order of its characters, so that
\* "id10" comes before "id2".
RECURSIVE SortAsc(_)
SortAsc(S) ==
    IF S = {} THEN <<>>
    ELSE LET m == CHOOSE x \in S :
                      \A y \in S \ {x} : StrLess(KeyChars(x), KeyChars(y))
         IN  <<m>> \o SortAsc(S \ {m})

SortedKeys(d) == SortAsc(DOMAIN d)

\* for level in sorted(d): one row per name   (lines 147-150)
CoarseRows(d) ==
    LET names == SortedKeys(d)
    IN  [j \in 1 .. Len(names) |->
            [key    |-> names[j],
             area   |-> d[names[j]][1],
             total_intensity |-> d[names[j]][2],
             mean   |-> Mean(d[names[j]][2], d[names[j]][1])]]

\* ------------------------------------------------------------- the state
VARIABLES
    pc,            \* where main is
    n_cores,       \* args.n_cores
    level,         \* args.level
    casting,       \* the numpy build's rule for in-place casts
    segmentation,  \* the reference segmentation file
    sm,            \* sm_segmentation: the shared memory's contents
    sm_log,        \* who wrote to the shared memory, in order
    warper,        \* the Warper built from the alignment
    files,         \* glob.glob(args.input), each name with its file
    total_counts,
    total_sums,
    z,             \* enumerate(files): planes started by a loop of main
    cs,            \* the last c, s main received
    pool,          \* "none", "open" or "terminated"
    futures,       \* the AsyncResults: state and outcome of each task
    finished,      \* task numbers in the order the tasks completed
    folded,        \* plane numbers in the order main added their results
    br,            \* the parsed region table
    output,        \* the report file
    failure        \* the exception that ended main, or "none"

vars == <<pc, n_cores, level, casting, segmentation, sm, sm_log, warper, files,
          total_counts, total_sums, z, cs, pool, futures, finished, folded, br,
          output, failure>>

NoMemory == [shape |-> <<0, 0, 0>>, data |-> <<>>]

NoResult == Raised

NoOutput == [opened |-> FALSE, rows |-> <<>>]

Levels == {1, 7}

Castings == {"unsafe", "same_kind"}

\* The runs of main explored: the segmentations of two voxels along z, so
\* that successive planes meet different voxels; four warps (the identity,
\* under which the second pixel of a row lands exactly on the x extent; the
\* x axis collapsed, every pixel of a row in one voxel; one voxel down z; half
\* a voxel per plane along z with x collapsed); and the image with a bright
\* first pixel next to the undecodable file.
MainSegmentations == {g \in Segmentations : g.shape = <<2, 1, 1>>}

MainWarpers ==
    {[off |-> <<0, 0, 0>>, scale |-> <<2, 2, 2>>],
     [off |-> <<0, 0, 0>>, scale |-> <<2, 2, 0>>],
     [off |-> <<-2, 0, 0>>, scale |-> <<2, 2, 2>>],
     [off |-> <<0, 0, 0>>, scale |-> <<1, 2, 0>>]}

MainFiles ==
    {[ok |-> TRUE, px |-> [i \in 1 .. MaxCols |-> IF i = 1 THEN MaxIntensity ELSE 0]],
     BadFile}

\* The region tables drawn when the csv is parsed: at level 7 only name_per_id
\* is read, at a coarser level only the ancestor names, some ids possibly
\* without an entry.  Label 0 ("not in any region") has no entry.
RegionTables ==
    IF level = 7
    THEN {[name_per_id |-> <<>>, level_name |-> <<>>],
          [name_per_id |-> [i \in 1 .. MaxLabel |-> RegionNames[1]],
           level_name |-> <<>>]}
    ELSE {[name_per_id |-> <<>>, level_name |-> f] :
             f \in UNION {[S -> NameSet] : S \in SUBSET (1 .. MaxLabel)}}

Init ==
    /\ pc = "start"
    /\ n_cores \in (-1) .. MaxCores
    /\ level \in Levels
    /\ casting \in Castings
    /\ segmentation \in MainSegmentations
    /\ sm = NoMemory
    /\ sm_log = <<>>
    /\ warper \in MainWarpers
    /\ files \in UNION {[1 .. n -> MainFiles] : n \in 0 .. MaxPlanes}
    /\ total_counts = <<>>
    /\ total_sums = <<>>
    /\ z = 0
    /\ cs = NoResult
    /\ pool = "none"
    /\ futures = <<>>
    /\ finished = <<>>
    /\ folded = <<>>
    /\ br = NoRegions
    /\ output = NoOutput
    /\ failure = "none"

\* main raises: the exception leaves the with-block of an open pool, which
\* terminates the pool.
Raise(e) ==
    /\ pc' = "failed"
    /\ failure' = e
    /\ pool' = IF pool = "open" THEN "terminated" ELSE pool

\* lines 81-88: build the warper, read the segmentation, allocate the shared
\* memory and write the segmentation into it.
LoadSegmentation ==
    /\ pc = "start"
    /\ sm' = LoadTxn(sm, segmentation)
    /\ sm_log' = Append(sm_log, "main")
    /\ pc' = "glob"
    /\ UNCHANGED <<n_cores, level, casting, segmentation, warper, files,
                   total_counts, total_sums, z, cs, pool, futures, finished,
                   folded, br, output, failure>>

\* lines 89-93: no file is an IOError; else the totals are allocated.
Glob ==
    /\ pc = "glob"
    /\ IF Len(files) = 0
       THEN /\ Raise("IOError")
            /\ UNCHANGED <<total_counts, total_sums>>
       ELSE /\ pc' = "map"
            /\ total_counts' = Zeros(Send(sm))
            /\ total_sums' = Zeros(Send(sm))
            /\ UNCHANGED <<pool, failure>>
    /\ UNCHANGED <<n_cores, level, casting, segmentation, sm, sm_log, warper,
                   files, z, cs, futures, finished, folded, br, output>>

\* The body of both reduce loops: c, s = ...; total_counts += c; total_sums += s
\* for plane number k, leaving the loop after the last plane.
Fold(k, r, last) ==
    IF ~r.ok
    THEN /\ Raise("PlaneError")
         /\ UNCHANGED <<total_counts, total_sums, cs, folded>>
    ELSE LET a == Accumulate(total_counts, total_sums, r, casting)
         IN  /\ cs' = r
             /\ total_counts' = a.counts
             /\ total_sums' = a.sums
             /\ IF a.err # "none"
                THEN /\ Raise(a.err)
                     /\ UNCHANGED folded
                ELSE /\ folded' = Append(folded, k)
                     /\ failure' = failure
                     /\ pc' = IF last THEN "regions" ELSE pc
                     /\ pool' = IF last /\ pool = "open" THEN "terminated" ELSE pool

\* lines 95-98: one iteration of the sequential loop.
SeqPlane ==
    /\ pc = "map"
    /\ n_cores = 1
    /\ z < Len(files)
    /\ z' = z + 1
    /\ sm' = DoPlaneTxn(sm)
    /\ Fold(z + 1, do_plane(files[z + 1], z, sm, warper), z + 1 = Len(files))
    /\ UNCHANGED <<n_cores, level, casting, segmentation, sm_log, warper, files,
                   futures, finished, br, output>>

\* line 100: the pool is created, or refuses its size.
OpenPool ==
    /\ pc = "map"
    /\ n_cores # 1
    /\ IF PoolRejects(n_cores)
       THEN Raise("ValueError")
       ELSE /\ pc' = "submit"
            /\ pool' = "open"
            /\ failure' = failure
    /\ UNCHANGED <<n_cores, level, casting, segmentation, sm, sm_log, warper,
                   files, total_counts, total_sums, z, cs, futures, finished,
                   folded, br, output>>

\* lines 102-106: one apply_async per file.
Submit ==
    /\ pc = "submit"
    /\ z < Len(files)
    /\ z' = z + 1
    /\ futures' = Append(futures, [st |-> "queued", res |-> NoResult])
    /\ pc' = IF z + 1 = Len(files) THEN "collect" ELSE pc
    /\ UNCHANGED <<n_cores, level, casting, segmentation, sm, sm_log, warper,
                   files, total_counts, total_sums, cs, pool, finished, folded,
                   br, output, failure>>

Running == {t \in DOMAIN futures : futures[t].st = "running"}

\* A free worker process takes the oldest queued task.
WorkerTake(t) ==
    /\ pool = "open"
    /\ futures[t].st = "queued"
    /\ \A e \in 1 .. t - 1 : futures[e].st # "queued"
    /\ Cardinality(Running) < n_cores
    /\ futures' = [futures EXCEPT ![t].st = "running"]
    /\ UNCHANGED <<pc, n_cores, level, casting, segmentation, sm, sm_log, warper,
                   files, total_counts, total_sums, z, cs, pool, finished, folded,
                   br, output, failure>>

\* The worker runs do_plane(filename, z, sm_segmentation, warper) and the
\* AsyncResult receives the value or the exception.
WorkerRun(t) ==
    /\ pool = "open"
    /\ futures[t].st = "running"
    /\ sm' = DoPlaneTxn(sm)
    /\ LET r == do_plane(files[t], t - 1, sm, warper)
       IN  futures' = [futures EXCEPT ![t] =
                          [st |-> IF r.ok THEN "done" ELSE "error", res |-> r]]
    /\ finished' = Append(finished, t)
    /\ UNCHANGED <<pc, n_cores, level, casting, segmentation, sm_log, warper,
                   files, total_counts, total_sums, z, cs, pool, folded, br,
                   output, failure>>

\* A faulty NextFuture: the earliest completed task not yet collected.
NextFutureCompleted ==
    LET seen == {folded[i] : i \in DOMAIN folded}
        left == {i \in DOMAIN finished : finished[i] \notin seen}
    IN  IF left = {} THEN Len(folded) + 1
        ELSE finished[CHOOSE i \in left : \A j \in left : i <= j]

\* for future in futures: the future the loop of line 108 is at.
NextFuture == Len(folded) + 1

\* lines 108-111: future.get() returns once that task has completed, or
\* raises what the task raised.
Get ==
    /\ pc = "collect"
    /\ LET k == NextFuture
       IN  /\ k \in DOMAIN futures
           /\ futures[k].st \in {"done", "error"}
           /\ k \notin {folded[i] : i \in DOMAIN folded}
           /\ Fold(k, futures[k].res, Len(folded) + 1 = Len(futures))
    /\ UNCHANGED <<n_cores, level, casting, segmentation, sm, sm_log, warper,
                   files, z, futures, finished, br, output>>

\* lines 113-114
ParseRegions ==
    /\ pc = "regions"
    /\ br' \in RegionTables
    /\ pc' = "report"
    /\ UNCHANGED <<n_cores, level, casting, segmentation, sm, sm_log, warper,
                   files, total_counts, total_sums, z, cs, pool, futures,
                   finished, folded, output, failure>>

\* lines 116-150: filter, then the per-id report or the rollup and its report.
Report ==
    /\ pc = "report"
    /\ IF level = 7
       THEN /\ output' = [opened |-> TRUE,
                          rows |-> Level7Rows(total_counts, total_sums, br)]
            /\ pc' = "done"
            /\ UNCHANGED <<pool, failure>>
       ELSE LET r == Rollup(total_counts, total_sums, br)
            IN  IF r.err # "none"
                THEN /\ Raise(r.err)
                     /\ UNCHANGED output
                ELSE /\ output' = [opened |-> TRUE, rows |-> CoarseRows(r.d)]
                     /\ pc' = "done"
                     /\ UNCHANGED <<pool, failure>>
    /\ UNCHANGED <<n_cores, level, casting, segmentation, sm, sm_log, warper,
                   files, total_counts, total_sums, z, cs, futures, finished,
                   folded, br>>

Next ==
    \/ LoadSegmentation
    \/ Glob
    \/ SeqPlane
    \/ OpenPool
    \/ Submit
    \/ \E t \in DOMAIN futures : WorkerTake(t)
    \/ \E t \in DOMAIN futures : WorkerRun(t)
    \/ Get
    \/ ParseRegions
    \/ Report

Spec == Init /\ [][Next]_vars

\* -------------------------------------------- do_plane on its own inputs
\* One call of do_plane on the first plane (z = 0, one row: the steps along z
\* and y do not matter) for any plane file and any warp, against any
\* segmentation already loaded into the shared memory and with the totals
\* allocated as main allocates them.
PlaneWarpers == {w \in Warpers : w.scale[1] = 2 /\ w.scale[2] = 2}

InitPlane ==
    /\ pc = "plane"
    /\ n_cores = 1
    /\ level = 7
    /\ casting = "unsafe"
    /\ segmentation \in Segmentations
    /\ sm = LoadTxn(NoMemory, segmentation)
    /\ sm_log = <<"main">>
    /\ warper = [off |-> <<0, 0, 0>>, scale |-> <<2, 2, 2>>]
    /\ files = <<>>
    /\ total_counts = Zeros(Send(sm))
    /\ total_sums = Zeros(Send(sm))
    /\ z = 0
    /\ cs = NoResult
    /\ pool = "none"
    /\ futures = <<>>
    /\ finished = <<>>
    /\ folded = <<>>
    /\ br = NoRegions
    /\ output = NoOutput
    /\ failure = "none"

PlaneTask ==
    /\ pc = "plane"
    /\ \E f \in PlaneFiles, w \in PlaneWarpers :
          /\ files' = <<f>>
          /\ warper' = w
          /\ cs' = do_plane(f, z, sm, w)
    /\ sm' = DoPlaneTxn(sm)
    /\ pc' = "plane_done"
    /\ UNCHANGED <<n_cores, level, casting, segmentation, sm_log, total_counts,
                   total_sums, z, pool, futures, finished, folded, br, output,
                   failure>>

NextPlane == PlaneTask

SpecPlane == InitPlane /\ [][NextPlane]_vars

\* ============================================================ properties
Planes == DOMAIN files

\* What plane number k contributes: do_plane on its file with z = k - 1.
Contribution(k) == do_plane(files[k], k - 1, sm, warper)

\* The map/reduce phase of main has finished without error.
MapReduceDone ==
    \/ pc \in {"regions", "report", "done"}
    \/ pc = "failed" /\ failure = "TypeError"

Labels == 0 .. MaxOf({segmentation.data[v] : v \in DOMAIN segmentation.data})

RECURSIVE SumOver(_, _)
SumOver(S, f) ==
    IF S = {} THEN 0
    ELSE LET x == CHOOSE y \in S : TRUE IN f[x] + SumOver(S \ {x}, f)

\* C1: once the map/reduce phase has finished without error, for every label
\* id from 0 to the maximum label total_counts[id] and total_sums[id] are the
\* sums over all planes of the plane's do_plane contribution; every plane was
\* submitted exactly once and its result added exactly once.
C1_TotalsAreSumOfPlanes ==
    MapReduceDone =>
        LET contr == [k \in Planes |-> Contribution(k)]
        IN  /\ DOMAIN total_counts = Labels
            /\ DOMAIN total_sums = Labels
            /\ \A id \in Labels :
                  /\ total_counts[id] =
                        SumOver(Planes, [k \in Planes |-> contr[k].counts[id]])
                  /\ total_sums[id] =
                        SumOver(Planes, [k \in Planes |-> contr[k].sums[id]])
            /\ z = Len(files)
            /\ n_cores # 1 => Len(futures) = Len(files)
            /\ Len(folded) = Len(files)
            /\ \A k \in Planes :
                  Cardinality({i \in DOMAIN folded : folded[i] = k}) = 1

\* Two or more planes with different, non-zero contributions were reduced by
\* a pool.
C1_Witness ==
    /\ MapReduceDone
    /\ n_cores > 1
    /\ Len(files) >= 2
    /\ Contribution(1) # Contribution(2)
    /\ \E id \in Labels : Contribution(1).counts[id] > 0
    /\ \E id \in Labels : Contribution(2).sums[id] > 0

\* The task of plane k fails: tifffile.imread cannot decode its file.
PlaneFails(k) == ~files[k].ok

\* C2: when a plane task fails the run fails: the report is never opened, and
\* no run gets past the reduce phase without every plane's result added.
C2_PlaneFailureFailsRun ==
    /\ (\E k \in Planes : PlaneFails(k)) =>
          /\ ~output.opened
          /\ pc \notin {"regions", "report", "done"}
    /\ failure = "PlaneError" => pc = "failed" /\ ~output.opened
    /\ pc \in {"regions", "report", "done"} =>
          \A k \in Planes : k \in {folded[i] : i \in DOMAIN folded}

\* A pooled run ended by the failure of its second plane, after the first
\* plane's result had been added.
C2_Witness ==
    /\ pc = "failed"
    /\ failure = "PlaneError"
    /\ n_cores > 1
    /\ folded = <<1>>
    /\ ~files[2].ok
    /\ pool = "terminated"

\* The rows the rollup owes: one per ancestor name of a surviving id, with the
\* counts and intensities of all surviving ids of that name summed.
Surviving == {id \in DOMAIN total_counts : total_counts[id] > 0}

GroupKeys == {get_level_name(br, id) : id \in Surviving}

IdsOf(key) == {id \in Surviving : get_level_name(br, id) = key}

RowsOf(key) == {i \in DOMAIN output.rows : output.rows[i].key = key}

\* C3: at a coarser level the run completes with exactly one row per distinct
\* ancestor name, holding the summed count and intensity of every surviving
\* id of that name (also when two or more ids share the name).
C3_RollupSumsGroups ==
    (MapReduceDone /\ level # 7 /\ pc \in {"done", "failed"}) =>
        /\ pc = "done"
        /\ Len(output.rows) = Cardinality(GroupKeys)
        /\ \A key \in GroupKeys :
              /\ Cardinality(RowsOf(key)) = 1
              /\ \A i \in RowsOf(key) :
                    /\ output.rows[i].area = SumOver(IdsOf(key), total_counts)
                    /\ output.rows[i].total_intensity =
                          SumOver(IdsOf(key), total_sums)

\* C4: the shared memory is written once, by main, before any plane task is
\* dispatched or run, and holds the segmentation unchanged ever after.
C4_WrittenOnceThenReadOnly ==
    /\ Len(sm_log) <= 1
    /\ \A i \in DOMAIN sm_log : sm_log[i] = "main"
    /\ (pc # "start") => sm_log = <<"main">> /\ sm = LoadTxn(NoMemory, segmentation)
    /\ (z > 0 \/ futures # <<>> \/ pool # "none" \/ folded # <<>>) => pc # "start"

\* Two workers have run do_plane on a segmentation with a non-zero label.
C4_Witness ==
    /\ Len(finished) >= 2
    /\ sm_log = <<"main">>
    /\ \E v \in DOMAIN sm.data : sm.data[v] > 0

\* The plane do_plane was called on under SpecPlane, and where each of its
\* pixels lands.
Px == files[1].px

Rounded(i) == SegCoords(Px, z, warper)[i]

AllAxesInside(i) ==
    \A a \in 1 .. 3 : 0 <= Rounded(i)[a] /\ Rounded(i)[a] < sm.shape[a]

\* C5: a pixel contributes exactly when its three rounded warped coordinates
\* are inside the volume: it adds 1 to counts and its intensity to sums at
\* its label; any other pixel adds nothing and raises nothing, so that
\* sum(counts) is the number of in-bounds pixels.
C5_OnlyInBoundsPixelsCount ==
    (pc = "plane_done" /\ files[1].ok) =>
        LET inside  == {i \in DOMAIN Px : AllAxesInside(i)}
            label   == [i \in inside |-> sm.data[Rounded(i)]]
            hits(id) == {i \in inside : label[i] = id}
        IN  /\ cs.ok
            /\ \A id \in DOMAIN cs.counts :
                  /\ cs.counts[id] = Cardinality(hits(id))
                  /\ cs.sums[id] = SumOver(hits(id), Px)
            /\ \A i \in inside : label[i] \in DOMAIN cs.counts
            /\ SumOver(DOMAIN cs.counts, cs.counts) = Cardinality(inside)

\* One pixel lands inside with a non-zero intensity while another lands
\* exactly on an axis size, or exactly on -1.
C5_Witness ==
    /\ pc = "plane_done"
    /\ cs.ok
    /\ \E i \in DOMAIN Px : AllAxesInside(i) /\ Px[i] > 0
    /\ \E i \in DOMAIN Px, a \in 1 .. 3 :
          Rounded(i)[a] = sm.shape[a] \/ Rounded(i)[a] = -1

\* The result of reducing the contributions contr in the given order.
RECURSIVE ReduceFrom(_, _, _, _)
ReduceFrom(acc, contr, order, j) ==
    IF j > Len(order) THEN acc
    ELSE LET a == Accumulate(acc.counts, acc.sums, contr[order[j]], casting)
         IN  ReduceFrom([counts |-> a.counts, sums |-> a.sums], contr, order, j + 1)

ReduceInOrder(contr, order) ==
    ReduceFrom([counts |-> Zeros(Send(sm)), sums |-> Zeros(Send(sm))],
               contr, order, 1)

Orders == {p \in [Planes -> Planes] : \A i, j \in Planes : p[i] = p[j] => i = j}

\* C6: reducing the planes in any order gives the totals main computed.
C6_AnyOrderSameTotals ==
    MapReduceDone =>
        LET contr == [k \in Planes |-> Contribution(k)]
            mine  == [counts |-> total_counts, sums |-> total_sums]
        IN  \A p \in Orders : ReduceInOrder(contr, p) = mine

\* Two planes with different non-zero contributions have been reduced.
C6_Witness ==
    /\ MapReduceDone
    /\ Len(files) >= 2
    /\ Contribution(1).counts # Contribution(2).counts
    /\ Contribution(1).sums # Contribution(2).sums
    /\ \E id \in Labels : Contribution(1).sums[id] > 0
    /\ \E id \in Labels : Contribution(2).sums[id] > 0

\* C7: ids with a zero count are dropped before reporting: every row of the
\* report has a count > 0 and a defined mean, and at level 7 the rows are
\* those of the ids with a positive count.
C7_NoEmptyRows ==
    pc = "done" =>
        /\ \A i \in DOMAIN output.rows :
              /\ output.rows[i].area > 0
              /\ output.rows[i].mean # <<"nan">>
        /\ level = 7 =>
              /\ Len(output.rows) = Cardinality(Surviving)
              /\ \A i \in DOMAIN output.rows : output.rows[i].key[1] \in Surviving

\* A report was written while a label of the segmentation was never hit.
C7_Witness ==
    /\ pc = "done"
    /\ level = 7
    /\ Len(output.rows) > 0
    /\ \E v \in DOMAIN sm.data :
          sm.data[v] > 0 /\ total_counts[sm.data[v]] = 0

IsPrefix(a, b) == Len(a) <= Len(b) /\ \A i \in DOMAIN a : a[i] = b[i]

\* C8 as stated: the pool's results are added in the order the tasks complete.
C8_FoldedInCompletionOrder == n_cores # 1 => IsPrefix(folded, finished)

\* C8, amended: results are added in submission order; the result of a task
\* that completed early waits until every earlier task's result is added.
C8_FoldedInSubmissionOrder ==
    /\ \A i \in DOMAIN folded : folded[i] = i
    /\ \A t \in DOMAIN futures :
          (t \in {folded[i] : i \in DOMAIN folded}) =>
              \A e \in 1 .. t - 1 : futures[e].st = "done"

\* The second task completed first, and its result was added second.
C8_Witness ==
    /\ n_cores > 1
    /\ Len(finished) >= 2
    /\ finished[1] = 2
    /\ finished[2] = 1
    /\ Len(folded) >= 2

\* C9: every result of do_plane has counts and sums of length (maximum label
\* of the segmentation) + 1, the length of the totals, so that adding it
\* never meets a length mismatch.
C9_ResultLength ==
    (pc = "plane_done" /\ cs.ok) =>
        /\ VecLen(cs.counts) = Cardinality(Labels)
        /\ VecLen(cs.sums) = Cardinality(Labels)
        /\ DOMAIN cs.counts = DOMAIN total_counts
        /\ DOMAIN cs.sums = DOMAIN total_sums
        /\ Accumulate(total_counts, total_sums, cs, casting).err # "ValueError"

\* Every pixel warped out of bounds, the maximum label at least 1: the
\* result is all zeros, of length >= 2.
C9_Witness ==
    /\ pc = "plane_done"
    /\ cs.ok
    /\ VecLen(cs.counts) >= 2
    /\ \A id \in DOMAIN cs.counts : cs.counts[id] = 0 /\ cs.sums[id] = 0
    /\ \A i \in DOMAIN Px : ~AllAxesInside(i)

\* C10: with --n-cores <= 0 no plane task is dispatched or run, the totals
\* are never updated and no report is written.
C10_InvalidCoresDoNothing ==
    n_cores <= 0 =>
        /\ futures = <<>>
        /\ finished = <<>>
        /\ folded = <<>>
        /\ z = 0
        /\ cs = NoResult
        /\ \A id \in DOMAIN total_counts : total_counts[id] = 0 /\ total_sums[id] = 0
        /\ ~output.opened
        /\ pc \notin {"submit", "collect", "regions", "report", "done"}

\* The pool refused its size.
C10_Witness ==
    /\ n_cores <= 0
    /\ pc = "failed"
    /\ failure = "ValueError"
    /\ Len(files) > 0

====
